---- MODULE Spec2Model ----
(***************************************************************************)
(* RBAC permission classes of backend/claims/permissions.py.               *)
(*                                                                         *)
(* Every permission class is a decision over a request (the principal      *)
(* request.user and the verb request.method) and, for IsOwnerOrStaff, a    *)
(* target object.  Python values are modelled as strings: the booleans     *)
(* "True" and "False", and "AttributeError" for an attribute access that   *)
(* raises, so that a decision which faults is distinguishable from one     *)
(* that denies.                                                            *)
(*                                                                         *)
(* Workers are request-handling threads.  A worker receives a call         *)
(* (Invoke), the permission class named by the call computes its outcome   *)
(* from the call's inputs and the module-level role tuples (one action per *)
(* class), and the worker hands the outcome back (Respond).                *)
(***************************************************************************)
EXTENDS Integers, FiniteSets, Sequences, TLC

VARIABLES groups, pc, call, ret

vars == <<groups, pc, call, ret>>

-----------------------------------------------------------------------------
(* Bounds *)

\* number of distinct principals an object relation can point at
NumUsers == 2

\* number of request-handling threads that exist
NumWorkers == 2

-----------------------------------------------------------------------------
(* Python values *)

True == "True"
False == "False"
AttributeError == "AttributeError"

Bool(b) == IF b THEN True ELSE False

\* `a and b`: b is evaluated only when a is truthy; an exception in a propagates
PyAnd(a, b) == IF a # True THEN a ELSE b

\* `role in group`, `role == value`; an exception raised while computing role propagates
PyIn(role, group) == IF role = AttributeError THEN AttributeError ELSE Bool(role \in group)
PyEq(role, value) == IF role = AttributeError THEN AttributeError ELSE Bool(role = value)

-----------------------------------------------------------------------------
(* Role registry: the module-level tuples *)

STAFF_ROLES == {"admin", "manager", "adjuster", "reviewer", "agent"}
MANAGEMENT_ROLES == {"admin", "manager"}
\* variant: manager left out of the processing tuple
PROCESSING_ROLES_without_manager == {"admin", "adjuster"}
PROCESSING_ROLES == {"admin", "manager", "adjuster"}
\* variant: the oversight tuple lists adjuster in place of reviewer
OVERSIGHT_ROLES_with_adjuster == {"admin", "manager", "adjuster"}
OVERSIGHT_ROLES == {"admin", "manager", "reviewer"}

\* rest_framework.permissions.SAFE_METHODS
SAFE_METHODS == {"GET", "HEAD", "OPTIONS"}

-----------------------------------------------------------------------------
(* Input domains *)

\* the six roles of the module docstring, and one value outside them
Roles == {"admin", "manager", "adjuster", "reviewer", "agent", "customer"}
UnknownRole == "intern"

Users == 1 .. NumUsers

\* an ownership relation the object does not expose
Absent == 0

Relations == {"claimant", "holder", "user"}

\* user.profile: the attribute is missing ("noattr"), is None ("none"), or
\* is a profile object carrying a role ("obj")
NoProfile == [kind |-> "noattr", role |-> ""]
NoneProfile == [kind |-> "none", role |-> ""]
Profiles == {NoProfile, NoneProfile} \cup
            {[kind |-> "obj", role |-> r] : r \in Roles \cup {UnknownRole}}

Principals == [is_authenticated : BOOLEAN, profile : Profiles, id : Users]

Methods == SAFE_METHODS \cup {"POST", "DELETE"}

Requests == [user : Principals, method : Methods]

\* every subset of the relations present, each pointing at any principal
Objects == [Relations -> {Absent} \cup Users]

\* the object of a view-level check (has_permission takes no object)
NoObj == [r \in Relations |-> Absent]

ViewPermissions == {"IsAdmin", "IsManagement", "IsStaff", "IsStaffOrReadOnly",
                    "CanProcessClaims", "CanAssignClaims", "CanManageFraudAlerts",
                    "CanViewAnalytics", "CanManageUsers"}
ObjectPermissions == {"IsOwnerOrStaff"}
PermissionClasses == ViewPermissions \cup ObjectPermissions

Calls == [decision : ViewPermissions, request : Requests, obj : {NoObj}] \cup
         [decision : ObjectPermissions, request : Requests, obj : Objects]

NoCall == [decision |-> "none",
           request |-> [user |-> [is_authenticated |-> FALSE, profile |-> NoProfile, id |-> 1],
                        method |-> "GET"],
           obj |-> NoObj]

-----------------------------------------------------------------------------
(* Helpers *)

\* getattr(user, 'profile', None)
getattr_profile(user) ==
    IF user.profile.kind = "noattr" THEN NoneProfile ELSE user.profile

\* variant: a missing profile defaults to 'agent'
_get_role_default_agent(user) ==
    LET profile == getattr_profile(user)
    IN  IF profile.kind = "obj" THEN profile.role ELSE "agent"

\* def _get_role(user)
_get_role(user) ==
    LET profile == getattr_profile(user)
    IN  IF profile.kind = "obj" THEN profile.role ELSE "customer"

\* variant: the relation is read without probing for it
hasattr_unprobed(obj, rel) == TRUE

\* hasattr(obj, rel)
hasattr(obj, rel) == obj[rel] # Absent

\* obj.<rel> == request.user ; the attribute access raises when rel is missing
attr_eq_user(obj, rel, user) ==
    IF obj[rel] = Absent THEN AttributeError ELSE Bool(obj[rel] = user.id)

\* request.user.is_authenticated
is_authenticated(request) == Bool(request.user.is_authenticated)

-----------------------------------------------------------------------------
(* Permission classes, as functions of the request (and object) *)

IsAdmin_has_permission(request) ==
    PyAnd(is_authenticated(request), PyEq(_get_role(request.user), "admin"))

IsManagement_has_permission(request) ==
    PyAnd(is_authenticated(request), PyIn(_get_role(request.user), groups.MANAGEMENT_ROLES))

IsStaff_has_permission(request) ==
    PyAnd(is_authenticated(request), PyIn(_get_role(request.user), groups.STAFF_ROLES))

\* variant: the safe-method branch is missing
IsStaffOrReadOnly_staff_only(request) ==
    IF ~request.user.is_authenticated THEN False
    ELSE PyIn(_get_role(request.user), groups.STAFF_ROLES)

IsStaffOrReadOnly_has_permission(request) ==
    IF ~request.user.is_authenticated THEN False
    ELSE IF request.method \in SAFE_METHODS THEN True
    ELSE PyIn(_get_role(request.user), groups.STAFF_ROLES)

\* variant: the user relation is not probed
IsOwnerOrStaff_without_user_probe(request, obj) ==
    LET role == _get_role(request.user)
        staff == PyIn(role, groups.STAFF_ROLES)
        claimant == PyAnd(Bool(hasattr(obj, "claimant")), attr_eq_user(obj, "claimant", request.user))
        holder == PyAnd(Bool(hasattr(obj, "holder")), attr_eq_user(obj, "holder", request.user))
    IN  IF staff # False THEN staff
        ELSE IF claimant # False THEN claimant
        ELSE IF holder # False THEN holder
        ELSE False

IsOwnerOrStaff_has_object_permission(request, obj) ==
    LET role == _get_role(request.user)
        staff == PyIn(role, groups.STAFF_ROLES)
        claimant == PyAnd(Bool(hasattr(obj, "claimant")), attr_eq_user(obj, "claimant", request.user))
        holder == PyAnd(Bool(hasattr(obj, "holder")), attr_eq_user(obj, "holder", request.user))
        user == PyAnd(Bool(hasattr(obj, "user")), attr_eq_user(obj, "user", request.user))
    IN  IF staff # False THEN staff
        ELSE IF claimant # False THEN claimant
        ELSE IF holder # False THEN holder
        ELSE IF user # False THEN user
        ELSE False

CanProcessClaims_has_permission(request) ==
    PyAnd(is_authenticated(request), PyIn(_get_role(request.user), groups.PROCESSING_ROLES))

CanAssignClaims_has_permission(request) ==
    PyAnd(is_authenticated(request), PyIn(_get_role(request.user), groups.MANAGEMENT_ROLES))

\* variant: reviewer may also resolve
CanManageFraudAlerts_reviewer_resolves(request) ==
    IF ~request.user.is_authenticated THEN False
    ELSE PyIn(_get_role(request.user), {"admin", "manager", "adjuster", "reviewer"})

\* variant: the two branches are swapped
CanManageFraudAlerts_swapped(request) ==
    IF ~request.user.is_authenticated THEN False
    ELSE LET role == _get_role(request.user)
         IN  IF request.method \in SAFE_METHODS
             THEN PyIn(role, {"admin", "manager", "adjuster"})
             ELSE PyIn(role, {"admin", "manager", "adjuster", "reviewer"})

CanManageFraudAlerts_has_permission(request) ==
    IF ~request.user.is_authenticated THEN False
    ELSE LET role == _get_role(request.user)
         IN  IF request.method \in SAFE_METHODS
             THEN PyIn(role, {"admin", "manager", "adjuster", "reviewer"})
             ELSE PyIn(role, {"admin", "manager", "adjuster"})

CanViewAnalytics_has_permission(request) ==
    PyAnd(is_authenticated(request), PyIn(_get_role(request.user), groups.OVERSIGHT_ROLES))

CanManageUsers_has_permission(request) ==
    PyAnd(is_authenticated(request), PyIn(_get_role(request.user), groups.MANAGEMENT_ROLES))

-----------------------------------------------------------------------------
(* State machine *)

Workers == 1 .. NumWorkers
\* the thread the sequential specification runs on
MainWorker == CHOOSE w \in Workers : \A v \in Workers : w <= v

Init ==
    /\ groups = [STAFF_ROLES |-> STAFF_ROLES,
                 MANAGEMENT_ROLES |-> MANAGEMENT_ROLES,
                 PROCESSING_ROLES |-> PROCESSING_ROLES,
                 OVERSIGHT_ROLES |-> OVERSIGHT_ROLES]
    /\ pc = [w \in Workers |-> "idle"]
    /\ call = [w \in Workers |-> NoCall]
    /\ ret = [w \in Workers |-> "None"]

\* the framework hands call c to worker w
Invoke(w, c) ==
    /\ pc[w] = "idle"
    /\ pc' = [pc EXCEPT ![w] = "called"]
    /\ call' = [call EXCEPT ![w] = c]
    /\ UNCHANGED <<groups, ret>>

\* variant: a granted role is remembered in the staff tuple
Return_remembering(w, decision, outcome) ==
    /\ pc[w] = "called"
    /\ call[w].decision = decision
    /\ ret' = [ret EXCEPT ![w] = outcome]
    /\ pc' = [pc EXCEPT ![w] = "done"]
    /\ groups' = IF outcome = True
                 THEN [groups EXCEPT !.STAFF_ROLES = @ \cup {_get_role(call[w].request.user)}]
                 ELSE groups
    /\ UNCHANGED call

\* the permission class returns (or raises) outcome
Return(w, decision, outcome) ==
    /\ pc[w] = "called"
    /\ call[w].decision = decision
    /\ ret' = [ret EXCEPT ![w] = outcome]
    /\ pc' = [pc EXCEPT ![w] = "done"]
    /\ UNCHANGED <<groups, call>>

IsAdmin(w) == Return(w, "IsAdmin", IsAdmin_has_permission(call[w].request))

IsManagement(w) == Return(w, "IsManagement", IsManagement_has_permission(call[w].request))

IsStaff(w) == Return(w, "IsStaff", IsStaff_has_permission(call[w].request))

IsStaffOrReadOnly(w) ==
    Return(w, "IsStaffOrReadOnly", IsStaffOrReadOnly_has_permission(call[w].request))

IsOwnerOrStaff(w) ==
    Return(w, "IsOwnerOrStaff", IsOwnerOrStaff_has_object_permission(call[w].request, call[w].obj))

CanProcessClaims(w) ==
    Return(w, "CanProcessClaims", CanProcessClaims_has_permission(call[w].request))

CanAssignClaims(w) ==
    Return(w, "CanAssignClaims", CanAssignClaims_has_permission(call[w].request))

CanManageFraudAlerts(w) ==
    Return(w, "CanManageFraudAlerts", CanManageFraudAlerts_has_permission(call[w].request))

CanViewAnalytics(w) ==
    Return(w, "CanViewAnalytics", CanViewAnalytics_has_permission(call[w].request))

CanManageUsers(w) ==
    Return(w, "CanManageUsers", CanManageUsers_has_permission(call[w].request))

\* the framework consumes the outcome; the worker is free for the next request
Respond(w) ==
    /\ pc[w] = "done"
    /\ pc' = [pc EXCEPT ![w] = "idle"]
    /\ call' = [call EXCEPT ![w] = NoCall]
    /\ ret' = [ret EXCEPT ![w] = "None"]
    /\ UNCHANGED groups

\* one request at a time, over the whole input domain
Next ==
    \/ \E c \in Calls : Invoke(MainWorker, c)
    \/ IsAdmin(MainWorker)
    \/ IsManagement(MainWorker)
    \/ IsStaff(MainWorker)
    \/ IsStaffOrReadOnly(MainWorker)
    \/ IsOwnerOrStaff(MainWorker)
    \/ CanProcessClaims(MainWorker)
    \/ CanAssignClaims(MainWorker)
    \/ CanManageFraudAlerts(MainWorker)
    \/ CanViewAnalytics(MainWorker)
    \/ CanManageUsers(MainWorker)
    \/ Respond(MainWorker)

Spec == Init /\ [][Next]_vars

\* the requests the concurrent specification draws from: a principal without
\* a profile reading, a reviewer mutating, and an anonymous caller mutating,
\* each against an object whose claimant is principal 1
ConcRequests ==
    { [user |-> [is_authenticated |-> TRUE, profile |-> NoProfile, id |-> 1],
       method |-> "GET"],
      [user |-> [is_authenticated |-> TRUE, profile |-> [kind |-> "obj", role |-> "reviewer"], id |-> 2],
       method |-> "POST"],
      [user |-> [is_authenticated |-> FALSE, profile |-> NoProfile, id |-> 2],
       method |-> "POST"] }

ConcObj == [r \in Relations |-> IF r = "claimant" THEN 1 ELSE Absent]

ConcCalls == [decision : ViewPermissions, request : ConcRequests, obj : {NoObj}] \cup
             [decision : ObjectPermissions, request : ConcRequests, obj : {ConcObj}]

\* every worker serves requests, in any interleaving
NextConc ==
    \E w \in Workers :
        \/ \E c \in ConcCalls : Invoke(w, c)
        \/ IsAdmin(w)
        \/ IsManagement(w)
        \/ IsStaff(w)
        \/ IsStaffOrReadOnly(w)
        \/ IsOwnerOrStaff(w)
        \/ CanProcessClaims(w)
        \/ CanAssignClaims(w)
        \/ CanManageFraudAlerts(w)
        \/ CanViewAnalytics(w)
        \/ CanManageUsers(w)
        \/ Respond(w)

SpecConc == Init /\ [][NextConc]_vars

-----------------------------------------------------------------------------
(* Vocabulary of the properties *)

\* the role a principal carries: its assigned role, or customer when none is assigned
RoleOf(user) == IF user.profile.kind = "obj" THEN user.profile.role ELSE "customer"

\* the principal is linked to the object by a relation the object exposes
Owns(user, obj) ==
    \E rel \in {"claimant", "holder", "user"} : obj[rel] # Absent /\ obj[rel] = user.id

ReadOnly(method) == method \in {"GET", "HEAD", "OPTIONS"}

\* the outcome of the permission class a call names
Decide(c) ==
    CASE c.decision = "IsAdmin" -> IsAdmin_has_permission(c.request)
      [] c.decision = "IsManagement" -> IsManagement_has_permission(c.request)
      [] c.decision = "IsStaff" -> IsStaff_has_permission(c.request)
      [] c.decision = "IsStaffOrReadOnly" -> IsStaffOrReadOnly_has_permission(c.request)
      [] c.decision = "IsOwnerOrStaff" -> IsOwnerOrStaff_has_object_permission(c.request, c.obj)
      [] c.decision = "CanProcessClaims" -> CanProcessClaims_has_permission(c.request)
      [] c.decision = "CanAssignClaims" -> CanAssignClaims_has_permission(c.request)
      [] c.decision = "CanManageFraudAlerts" -> CanManageFraudAlerts_has_permission(c.request)
      [] c.decision = "CanViewAnalytics" -> CanViewAnalytics_has_permission(c.request)
      [] c.decision = "CanManageUsers" -> CanManageUsers_has_permission(c.request)

\* worker w holds the outcome of decision d
Done(w, d) == pc[w] = "done" /\ call[w].decision = d

Finished(w) == pc[w] = "done"

-----------------------------------------------------------------------------
(* C1 *)

\* C1: every one of the ten decisions is false whenever the principal is not
\* authenticated, whatever its role, the operation and the target object.
C1_UnauthenticatedDenied ==
    \A w \in Workers :
        (Finished(w) /\ ~call[w].request.user.is_authenticated) => ret[w] = False

-----------------------------------------------------------------------------
(* C2 *)

\* C2: isOwnerOrStaff is true exactly when the resolved role is a staff role
\* or some exposed relation among claimant, holder, user equals the principal,
\* for every subset of relations present; otherwise it is false.
C2_OwnerOrStaff ==
    \A w \in Workers :
        Done(w, "IsOwnerOrStaff") =>
            LET user == call[w].request.user
                allowed == \/ RoleOf(user) \in {"admin", "manager", "adjuster", "reviewer", "agent"}
                           \/ Owns(user, call[w].obj)
            IN  ret[w] = IF allowed THEN True ELSE False

\* a non-staff principal, all three relations present, only the last probed one matching
C2_Witness ==
    \E w \in Workers :
        /\ Done(w, "IsOwnerOrStaff")
        /\ RoleOf(call[w].request.user) = "customer"
        /\ call[w].obj["claimant"] \notin {Absent, call[w].request.user.id}
        /\ call[w].obj["holder"] \notin {Absent, call[w].request.user.id}
        /\ call[w].obj["user"] = call[w].request.user.id
        /\ ret[w] = True

-----------------------------------------------------------------------------
(* C3 *)

\* C3: for an authenticated principal, isStaffOrReadOnly is true exactly when
\* the operation is read-only or the resolved role is a staff role.
C3_StaffOrReadOnly ==
    \A w \in Workers :
        (Done(w, "IsStaffOrReadOnly") /\ call[w].request.user.is_authenticated) =>
            LET allowed == \/ ReadOnly(call[w].request.method)
                           \/ RoleOf(call[w].request.user) \in
                                  {"admin", "manager", "adjuster", "reviewer", "agent"}
            IN  ret[w] = IF allowed THEN True ELSE False

\* an authenticated customer is denied a mutating operation
C3_Witness ==
    \E w \in Workers :
        /\ Done(w, "IsStaffOrReadOnly")
        /\ call[w].request.user.is_authenticated
        /\ RoleOf(call[w].request.user) = "customer"
        /\ call[w].request.method = "POST"
        /\ ret[w] = False

-----------------------------------------------------------------------------
(* C4 *)

\* C4: for an authenticated principal, canManageFraudAlerts is true on a
\* read-only operation exactly for admin, manager, adjuster, reviewer, and on
\* a mutating operation exactly for admin, manager, adjuster.
C4_FraudAlerts ==
    \A w \in Workers :
        (Done(w, "CanManageFraudAlerts") /\ call[w].request.user.is_authenticated) =>
            LET role == RoleOf(call[w].request.user)
                allowed == IF ReadOnly(call[w].request.method)
                           THEN role \in {"admin", "manager", "adjuster", "reviewer"}
                           ELSE role \in {"admin", "manager", "adjuster"}
            IN  ret[w] = IF allowed THEN True ELSE False

\* an authenticated reviewer is denied a mutating operation
C4_Witness ==
    \E w \in Workers :
        /\ Done(w, "CanManageFraudAlerts")
        /\ call[w].request.user.is_authenticated
        /\ RoleOf(call[w].request.user) = "reviewer"
        /\ call[w].request.method = "DELETE"
        /\ ret[w] = False

-----------------------------------------------------------------------------
(* C5 *)

\* the roles the role-only decision d allows
C5_Allowed(d) ==
    CASE d = "IsAdmin" -> {"admin"}
      [] d \in {"IsManagement", "CanAssignClaims", "CanManageUsers"} -> {"admin", "manager"}
      [] d = "IsStaff" -> {"admin", "manager", "adjuster", "reviewer", "agent"}
      [] d = "CanProcessClaims" -> {"admin", "manager", "adjuster"}
      [] d = "CanViewAnalytics" -> {"admin", "manager", "reviewer"}

C5_RoleOnly == {"IsAdmin", "IsManagement", "CanAssignClaims", "CanManageUsers",
                "IsStaff", "CanProcessClaims", "CanViewAnalytics"}

\* C5: for an authenticated principal and whatever the operation-kind, each
\* of the seven role-only decisions is true exactly for the roles of its group.
C5_RoleOnlyDecisions ==
    \A w \in Workers :
        (Finished(w) /\ call[w].decision \in C5_RoleOnly
                     /\ call[w].request.user.is_authenticated) =>
            ret[w] = IF RoleOf(call[w].request.user) \in C5_Allowed(call[w].decision)
                     THEN True ELSE False

\* an authenticated reviewer may view analytics on a mutating operation
C5_Witness ==
    \E w \in Workers :
        /\ Done(w, "CanViewAnalytics")
        /\ call[w].request.user.is_authenticated
        /\ RoleOf(call[w].request.user) = "reviewer"
        /\ call[w].request.method = "POST"
        /\ ret[w] = True

-----------------------------------------------------------------------------
(* C6 *)

\* the same call made by the same principal carrying an explicit customer role
AsCustomer(c) == [c EXCEPT !.request.user.profile = [kind |-> "obj", role |-> "customer"]]

\* C6: a principal with no profile resolves to customer, and every decision
\* for it equals the decision for the same principal with an explicit
\* customer role.
C6_DefaultRole ==
    \A w \in Workers :
        (Finished(w) /\ call[w].request.user.profile.kind # "obj") =>
            /\ _get_role(call[w].request.user) = "customer"
            /\ ret[w] = Decide(AsCustomer(call[w]))

\* a principal without a profile attribute reads through isStaffOrReadOnly
C6_Witness ==
    \E w \in Workers :
        /\ Done(w, "IsStaffOrReadOnly")
        /\ call[w].request.user.profile.kind = "noattr"
        /\ call[w].request.user.is_authenticated
        /\ call[w].request.method = "GET"
        /\ ret[w] = True

-----------------------------------------------------------------------------
(* C7 *)

\* C7: every decision returns a boolean and never faults, and a role outside
\* the six enumerated ones is denied wherever a group membership is required.
C7_Total ==
    \A w \in Workers :
        Finished(w) =>
            /\ ret[w] \in {True, False}
            /\ (call[w].request.user.profile.kind = "obj"
                    /\ call[w].request.user.profile.role \notin Roles) =>
                /\ call[w].decision \in C5_RoleOnly \cup {"CanManageFraudAlerts"} => ret[w] = False
                /\ (call[w].decision = "IsStaffOrReadOnly"
                        /\ ~ReadOnly(call[w].request.method)) => ret[w] = False
                /\ (call[w].decision = "IsOwnerOrStaff"
                        /\ ~Owns(call[w].request.user, call[w].obj)) => ret[w] = False

\* a principal without a profile attribute checked against an object exposing
\* no relation: the two places where an attribute could be missing
C7_Witness ==
    \E w \in Workers :
        /\ Done(w, "IsOwnerOrStaff")
        /\ call[w].request.user.profile.kind = "noattr"
        /\ call[w].obj = NoObj
        /\ ret[w] = False

-----------------------------------------------------------------------------
(* C8 *)

\* C8: in any interleaving of invocations, the role tuples are never
\* modified, an invocation's principal, operation and object are not modified
\* while it runs, its outcome is the function of its own inputs, and two
\* invocations with identical inputs have identical outcomes.
C8_Stateless ==
    /\ [](groups = [STAFF_ROLES |-> {"admin", "manager", "adjuster", "reviewer", "agent"},
                    MANAGEMENT_ROLES |-> {"admin", "manager"},
                    PROCESSING_ROLES |-> {"admin", "manager", "adjuster"},
                    OVERSIGHT_ROLES |-> {"admin", "manager", "reviewer"}])
    /\ [](\A w \in Workers : Finished(w) => ret[w] = Decide(call[w]))
    /\ [](\A w1, w2 \in Workers :
            (Finished(w1) /\ Finished(w2) /\ call[w1] = call[w2]) => ret[w1] = ret[w2])
    /\ [][\A w \in Workers : (pc[w] = "called" /\ pc'[w] = "done") => call'[w] = call[w]]_vars

\* two workers hold outcomes of the same call at the same time
C8_Witness ==
    \E w1, w2 \in Workers :
        /\ w1 # w2
        /\ Finished(w1) /\ Finished(w2)
        /\ call[w1] = call[w2]
        /\ ret[w1] = True

-----------------------------------------------------------------------------
(* C9 *)

\* the call c with its method replaced by m
WithMethod(c, m) == [c EXCEPT !.request.method = m]

\* C9: if isStaffOrReadOnly or canManageFraudAlerts allows a mutating
\* operation, it allows every read-only operation of the same principal; every
\* other decision gives the same outcome for every method.
C9_ReadOnlyNotStricter ==
    \A w \in Workers :
        Finished(w) =>
            IF call[w].decision \in {"IsStaffOrReadOnly", "CanManageFraudAlerts"}
            THEN (~ReadOnly(call[w].request.method) /\ ret[w] = True) =>
                     \A m \in Methods : ReadOnly(m) => Decide(WithMethod(call[w], m)) = True
            ELSE \A m \in Methods : Decide(WithMethod(call[w], m)) = ret[w]

\* an adjuster is allowed to mutate fraud alerts
C9_Witness ==
    \E w \in Workers :
        /\ Done(w, "CanManageFraudAlerts")
        /\ RoleOf(call[w].request.user) = "adjuster"
        /\ call[w].request.method = "DELETE"
        /\ ret[w] = True

-----------------------------------------------------------------------------
(* C10 *)

\* decision d on the request of call c allows
Allows(d, c) == Decide([c EXCEPT !.decision = d]) = True

\* C10: privileges are nested for every principal and operation, an
\* authenticated admin is allowed by all ten decisions, and an authenticated
\* customer only by isStaffOrReadOnly on read-only operations and by
\* isOwnerOrStaff on objects it owns.
C10_Nested ==
    \A w \in Workers :
        Finished(w) =>
            LET c == call[w]
                user == c.request.user
            IN  /\ (Done(w, "IsAdmin") /\ ret[w] = True) => Allows("IsManagement", c)
                /\ Done(w, "IsManagement") =>
                       /\ Allows("CanAssignClaims", c) <=> (ret[w] = True)
                       /\ Allows("CanManageUsers", c) <=> (ret[w] = True)
                /\ (call[w].decision \in {"IsManagement", "CanAssignClaims", "CanManageUsers"}
                        /\ ret[w] = True) =>
                       Allows("CanProcessClaims", c) /\ Allows("CanViewAnalytics", c)
                /\ (Done(w, "CanProcessClaims") /\ ret[w] = True) =>
                       \A m \in Methods : Allows("CanManageFraudAlerts", WithMethod(c, m))
                /\ (call[w].decision \in {"CanProcessClaims", "CanViewAnalytics"}
                        /\ ret[w] = True) => Allows("IsStaff", c)
                /\ (Done(w, "IsStaff") /\ ret[w] = True) =>
                       /\ Allows("IsStaffOrReadOnly", c)
                       /\ \A o \in Objects : Allows("IsOwnerOrStaff", [c EXCEPT !.obj = o])
                /\ (user.is_authenticated /\ RoleOf(user) = "admin") => ret[w] = True
                /\ (user.is_authenticated /\ RoleOf(user) = "customer" /\ ret[w] = True) =>
                       \/ Done(w, "IsStaffOrReadOnly") /\ ReadOnly(c.request.method)
                       \/ Done(w, "IsOwnerOrStaff") /\ Owns(user, c.obj)

\* an authenticated manager is allowed to assign claims
C10_Witness ==
    \E w \in Workers :
        /\ Done(w, "CanAssignClaims")
        /\ call[w].request.user.is_authenticated
        /\ RoleOf(call[w].request.user) = "manager"
        /\ ret[w] = True

====
